---- MODULE Spec2Model ----
(***************************************************************************)
(* Model of pg_podcast_toolkit/podcast_tools.py: the two feed loaders      *)
(* (load_podcast_file_into_etree, load_podcast_str_into_etree), the HTTP   *)
(* fetch (retreive_podcast_xml) and the enclosure extraction               *)
(* (parse_enclosure_map_from_etree, the second definition of that name,    *)
(* which rebinds the first at import time).                                *)
(*                                                                         *)
(* Python values are tagged records: None, a str (a sequence of one-       *)
(* character strings), an int, a dict, or a raised exception.  A feed is   *)
(* its text, a sequence of XML tokens; the parser builds from it the       *)
(* element tree, a sequence of elements in document order with parent      *)
(* pointers.                                                               *)
(***************************************************************************)
EXTENDS Integers, Sequences, FiniteSets, TLC

VARIABLES
    text,           \* the feed's content (file content = string content)
    tree,           \* what load_podcast_file_into_etree(path) gave
    elem,           \* what load_podcast_str_into_etree(text) gave
    treeMap,        \* what parse_enclosure_map_from_etree(tree) gave
    elemMap,        \* what parse_enclosure_map_from_etree(elem) gave
    response,       \* the HTTP response the server gives to GET url
    pc,             \* position inside retreive_podcast_xml
    fetched,        \* the outcome of the last retreive_podcast_xml call
    gets,           \* GET requests issued by the call in progress or last ended
    calls           \* retreive_podcast_xml calls ended

vars == <<text, tree, elem, treeMap, elemMap, response, pc, fetched, gets, calls>>

-----------------------------------------------------------------------------
(* Bounds of the enumeration *)

\* container elements (root, channel, item) a feed text may open
MaxElems == 3

\* retreive_podcast_xml calls followed
MaxCalls == 2

-----------------------------------------------------------------------------
(* Python values *)

None == [t |-> "None"]

PyStr(s) == [t |-> "str", v |-> s]

PyInt(n) == [t |-> "int", v |-> n]

Raise(e) == [t |-> "raise", exc |-> e]

Unset == [t |-> "unset"]

\* bool(x) for x a str or None: None and "" are falsy, every other str is truthy
Truthy(x) == x.t = "str" /\ x.v # <<>>

Digits == {"0", "1", "2", "3", "4", "5", "6", "7", "8", "9"}

DigitVal(c) ==
    CASE c = "0" -> 0 [] c = "1" -> 1 [] c = "2" -> 2 [] c = "3" -> 3
      [] c = "4" -> 4 [] c = "5" -> 5 [] c = "6" -> 6 [] c = "7" -> 7
      [] c = "8" -> 8 [] c = "9" -> 9

RECURSIVE LStrip(_)
LStrip(s) == IF s # <<>> /\ Head(s) = " " THEN LStrip(Tail(s)) ELSE s

RECURSIVE RStrip(_)
RStrip(s) ==
    IF s # <<>> /\ s[Len(s)] = " " THEN RStrip(SubSeq(s, 1, Len(s) - 1)) ELSE s

\* the digits of a numeral body: digits, single underscores between digits
NumeralBody(s) ==
    /\ s # <<>>
    /\ \A i \in 1..Len(s) : s[i] \in Digits \cup {"_"}
    /\ s[1] \in Digits /\ s[Len(s)] \in Digits
    /\ \A i \in 1..(Len(s) - 1) : ~(s[i] = "_" /\ s[i + 1] = "_")

RECURSIVE NumeralValue(_, _)
NumeralValue(s, acc) ==
    IF s = <<>> THEN acc
    ELSE IF Head(s) = "_" THEN NumeralValue(Tail(s), acc)
    ELSE NumeralValue(Tail(s), 10 * acc + DigitVal(Head(s)))

\* int(s) for a str s: surrounding blanks stripped, an optional sign, then a
\* decimal numeral; anything else raises ValueError
ParseInt(s) ==
    LET b == RStrip(LStrip(s))
        signed == b # <<>> /\ Head(b) \in {"+", "-"}
        body == IF signed THEN Tail(b) ELSE b
    IN  IF ~NumeralBody(body) THEN Raise("ValueError")
        ELSE IF signed /\ Head(b) = "-" THEN PyInt(0 - NumeralValue(body, 0))
        ELSE PyInt(NumeralValue(body, 0))

\* int(x): an int is returned as it is, a str is parsed
IntOf(x) == IF x.t = "int" THEN x ELSE ParseInt(x.v)

-----------------------------------------------------------------------------
(* XML text and its parse *)

NoAttrib == [k \in {} |-> None]

\* mapping.get(key, default)
Get(attrib, key, default) == IF key \in DOMAIN attrib THEN attrib[key] ELSE default

XmlDecl == [k |-> "decl", encoding |-> "UTF-8"]

StartTag(tag, attrib) == [k |-> "start", tag |-> tag, attrib |-> attrib]

EndTag(tag) == [k |-> "end", tag |-> tag]

CharData(s) == [k |-> "text", data |-> s]

Element(tag, parent, attrib) ==
    [tag |-> tag, parent |-> parent, text |-> None, attrib |-> attrib]

SyntaxError == [ok |-> FALSE, exc |-> "XMLSyntaxError"]

\* character data goes to .text of the innermost open element while that element
\* has no child yet; after a child it is that child's tail, which nothing reads
AddText(nodes, top, s) ==
    IF top # Len(nodes) THEN nodes
    ELSE [nodes EXCEPT ![top].text =
            IF @ = None THEN PyStr(s) ELSE PyStr(@.v \o s)]

\* the parser: tokens from i on, given the elements built so far and the stack
\* of open elements; the document is well-formed when it has exactly one root
\* and every element is closed by its own end tag
RECURSIVE ParseFrom(_, _, _, _)
ParseFrom(toks, i, nodes, stack) ==
    IF i > Len(toks)
    THEN IF stack = <<>> /\ nodes # <<>> THEN [ok |-> TRUE, nodes |-> nodes]
         ELSE SyntaxError
    ELSE LET tk == toks[i]
             top == IF stack = <<>> THEN 0 ELSE stack[Len(stack)]
         IN  CASE tk.k = "decl" ->
                    IF i = 1 THEN ParseFrom(toks, i + 1, nodes, stack)
                    ELSE SyntaxError
               [] tk.k = "start" ->
                    IF stack = <<>> /\ nodes # <<>> THEN SyntaxError
                    ELSE ParseFrom(toks, i + 1,
                                   Append(nodes, Element(tk.tag, top, tk.attrib)),
                                   Append(stack, Len(nodes) + 1))
               [] tk.k = "text" ->
                    IF stack = <<>> THEN SyntaxError
                    ELSE ParseFrom(toks, i + 1, AddText(nodes, top, tk.data), stack)
               [] tk.k = "end" ->
                    IF stack = <<>> \/ nodes[top].tag # tk.tag THEN SyntaxError
                    ELSE ParseFrom(toks, i + 1, nodes,
                                   SubSeq(stack, 1, Len(stack) - 1))

XMLParse(toks) == ParseFrom(toks, 1, <<>>, <<>>)

HasEncodingDeclaration(toks) == toks # <<>> /\ toks[1].k = "decl"

-----------------------------------------------------------------------------
(* The loaders *)

\* open(file_path, 'r') and etree.parse(f): the handle of the whole document
load_podcast_file_into_etree(content) ==
    LET p == XMLParse(content)
    IN  IF p.ok THEN [t |-> "ElementTree", nodes |-> p.nodes]
        ELSE Raise(p.exc)

\* etree.fromstring(podcast_str): the root element; a str that carries an
\* encoding declaration is refused with ValueError before any parsing
load_podcast_str_into_etree(podcast_str) ==
    IF HasEncodingDeclaration(podcast_str) THEN Raise("ValueError")
    ELSE LET p == XMLParse(podcast_str)
         IN  IF p.ok THEN [t |-> "Element", nodes |-> p.nodes, at |-> 1]
             ELSE Raise(p.exc)

-----------------------------------------------------------------------------
(* Element lookups *)

RECURSIVE IsAncestor(_, _, _)
IsAncestor(nodes, a, j) ==
    /\ j # 0
    /\ nodes[j].parent # 0
    /\ (nodes[j].parent = a \/ IsAncestor(nodes, a, nodes[j].parent))

\* the indices in S in increasing (document) order
RECURSIVE InOrder(_)
InOrder(S) ==
    IF S = {} THEN <<>>
    ELSE LET m == CHOOSE x \in S : \A y \in S : x <= y
         IN  <<m>> \o InOrder(S \ {m})

\* element.iterfind('.//tag'): the descendants of the element with that tag, in
\* document order; the element itself is not among them
ElementIterFind(nodes, at, tag) ==
    InOrder({j \in 1..Len(nodes) : nodes[j].tag = tag /\ IsAncestor(nodes, at, j)})

\* iterfind on a handle: an ElementTree hands the path to its root element
IterFind(handle, tag) ==
    IF handle.t = "ElementTree" THEN ElementIterFind(handle.nodes, 1, tag)
    ELSE ElementIterFind(handle.nodes, handle.at, tag)

\* element.find('./tag'): the first direct child with that tag, 0 for None
Find(nodes, at, tag) ==
    LET kids == {j \in 1..Len(nodes) : nodes[j].parent = at /\ nodes[j].tag = tag}
    IN  IF kids = {} THEN 0 ELSE CHOOSE x \in kids : \A y \in kids : x <= y

-----------------------------------------------------------------------------
(* The extraction *)

\* the MediaResource value record: the seven fields as given
MediaResource(guid, url, length, media_type, hash_ipfs, file_name, local_path) ==
    [guid |-> guid, url |-> url, length |-> length, media_type |-> media_type,
     hash_ipfs |-> hash_ipfs, file_name |-> file_name, local_path |-> local_path]

\* mutant of ItemGuid: the text of the last direct-child guid
ItemGuidLast(nodes, item) ==
    LET kids == {j \in 1..Len(nodes) : nodes[j].parent = item /\ nodes[j].tag = "guid"}
    IN  IF kids = {} THEN None
        ELSE nodes[CHOOSE x \in kids : \A y \in kids : y <= x].text

\* item.find('./guid').text if item.find('./guid') is not None else None
ItemGuid(nodes, item) ==
    IF Find(nodes, item, "guid") # 0 THEN nodes[Find(nodes, item, "guid")].text
    ELSE None

\* item.find('./enclosure'), 0 for None
ItemEnclosure(nodes, item) == Find(nodes, item, "enclosure")

\* mutant of EnclosureLength: "0" counts as no length
EnclosureLengthZeroUnset(attrib) ==
    IF Truthy(Get(attrib, "length", None)) /\ Get(attrib, "length", None).v # <<"0">>
    THEN IntOf(Get(attrib, "length", PyInt(0)))
    ELSE None

\* mutant of EnclosureLength: the default 0 without the guard
EnclosureLengthDefault(attrib) ==
    IF "length" \in DOMAIN attrib /\ ~Truthy(attrib["length"]) THEN None
    ELSE IntOf(Get(attrib, "length", PyInt(0)))

\* int(attrib.get('length', 0)) if attrib.get('length') else None
EnclosureLength(attrib) ==
    IF Truthy(Get(attrib, "length", None))
    THEN IntOf(Get(attrib, "length", PyInt(0)))
    ELSE None

\* mutant of DictStore: an existing entry is kept
DictStoreFirst(map, key, value) ==
    [k \in DOMAIN map \cup {key} |-> IF k \in DOMAIN map THEN map[k] ELSE value]

\* enclosure_map[guid] = media_resource
DictStore(map, key, value) ==
    [k \in DOMAIN map \cup {key} |-> IF k = key THEN value ELSE map[k]]

\* mutant of NewResource: the file name is taken from the url
NewResourceNamed(guid, attrib, length) ==
    MediaResource(guid, Get(attrib, "url", None), length,
                  Get(attrib, "type", None), None, Get(attrib, "url", None), None)

\* the MediaResource built for a guid and an enclosure whose length parsed
NewResource(guid, attrib, length) ==
    MediaResource(guid, Get(attrib, "url", None), length,
                  Get(attrib, "type", None), None, None, None)

\* mutant of ItemStep: an enclosure without url is skipped
ItemStepNeedsUrl(nodes, item, enclosure_map) ==
    LET guid == ItemGuid(nodes, item)
        enclosure == ItemEnclosure(nodes, item)
    IN  IF Truthy(guid) /\ enclosure # 0 /\ "url" \in DOMAIN nodes[enclosure].attrib
        THEN LET attrib == nodes[enclosure].attrib
                 length == EnclosureLength(attrib)
             IN  IF length.t = "raise" THEN length
                 ELSE [t |-> "dict",
                       d |-> DictStore(enclosure_map, guid.v,
                                       NewResource(guid, attrib, length))]
        ELSE [t |-> "dict", d |-> enclosure_map]

\* one pass of the loop body: the map after the item, or the exception raised
ItemStep(nodes, item, enclosure_map) ==
    LET guid == ItemGuid(nodes, item)
        enclosure == ItemEnclosure(nodes, item)
    IN  IF Truthy(guid) /\ enclosure # 0
        THEN LET attrib == nodes[enclosure].attrib
                 length == EnclosureLength(attrib)
             IN  IF length.t = "raise" THEN length
                 ELSE [t |-> "dict",
                       d |-> DictStore(enclosure_map, guid.v,
                                       NewResource(guid, attrib, length))]
        ELSE [t |-> "dict", d |-> enclosure_map]

\* the for loop over the items found, left at the first exception
RECURSIVE ItemLoop(_, _, _)
ItemLoop(nodes, items, enclosure_map) ==
    IF items = <<>> THEN [t |-> "dict", d |-> enclosure_map]
    ELSE LET r == ItemStep(nodes, Head(items), enclosure_map)
         IN  IF r.t = "raise" THEN r ELSE ItemLoop(nodes, Tail(items), r.d)

\* mutant of ItemsOf: only the items that are children of the root
ItemsOfRoot(podcast_etree) ==
    InOrder({j \in 1..Len(podcast_etree.nodes) :
                /\ podcast_etree.nodes[j].tag = "item"
                /\ podcast_etree.nodes[j].parent = 1})

\* the items the loop visits: podcast_etree.iterfind('.//item')
ItemsOf(podcast_etree) == IterFind(podcast_etree, "item")

EmptyDict == [k \in {} |-> None]

parse_enclosure_map_from_etree(podcast_etree) ==
    ItemLoop(podcast_etree.nodes, ItemsOf(podcast_etree), EmptyDict)

-----------------------------------------------------------------------------
(* The fetch *)

\* mutant of raise_for_status: only the server failures raise
raise_for_status_5xx(resp) ==
    IF 500 <= resp.status_code /\ resp.status_code < 600
    THEN Raise("HTTPError")
    ELSE None

\* requests' Response.raise_for_status(): HTTPError for a 4xx or a 5xx status
raise_for_status(resp) ==
    IF (400 <= resp.status_code /\ resp.status_code < 500)
       \/ (500 <= resp.status_code /\ resp.status_code < 600)
    THEN Raise("HTTPError")
    ELSE None

-----------------------------------------------------------------------------
(* Inputs: the feed texts written, the responses served *)

GuidA == <<"a">>

GuidB == <<"b">>

Url1 == PyStr(<<"u", "1">>)

Url2 == PyStr(<<"u", "2">>)

Mpeg == PyStr(<<"t">>)

\* <guid>g</guid>, or <guid></guid> for the empty text
Guid(g) ==
    <<StartTag("guid", NoAttrib)>>
        \o (IF g = <<>> THEN <<>> ELSE <<CharData(g)>>)
        \o <<EndTag("guid")>>

\* <enclosure .../>
Enclosure(attrib) == <<StartTag("enclosure", attrib), EndTag("enclosure")>>

EncFull == [url |-> Url1, length |-> PyStr(<<"1", "2", "3", "4", "5">>), type |-> Mpeg]

EncZero == [url |-> Url2, length |-> PyStr(<<"0">>)]

EncBad == [url |-> Url1, length |-> PyStr(<<"x">>), type |-> Mpeg]

EncEmptyLength == [length |-> PyStr(<<>>), type |-> Mpeg]

\* the leaf children written right after an item's start tag
ItemLeaves ==
    { <<>>,
      Guid(GuidA),
      Enclosure(EncFull),
      Guid(GuidA) \o Enclosure(EncFull),
      Guid(GuidA) \o Enclosure(NoAttrib),
      Guid(GuidB) \o Enclosure(EncZero),
      Guid(<<>>) \o Enclosure(EncFull),
      Guid(<<>>) \o Guid(GuidA) \o Enclosure(EncFull),
      Guid(GuidB) \o Enclosure(EncBad),
      Guid(GuidA) \o Enclosure(EncEmptyLength) }

\* the leaf children written right after the start tag of another container
ChannelLeaves ==
    { <<>>,
      Guid(GuidA) \o Enclosure(EncZero) }

\* the root is a plain wrapper, or an item with a guid and an enclosure of its own
RootLeaves(tag) ==
    IF tag = "item" THEN {Guid(GuidA) \o Enclosure(EncFull)} ELSE {<<>>}

LeavesOf(tag, toks) ==
    IF \A i \in 1..Len(toks) : toks[i].k # "start" THEN RootLeaves(tag)
    ELSE IF tag = "item" THEN ItemLeaves
    ELSE ChannelLeaves

ContainerTags == {"channel", "item"}

\* the tags of the elements a text has left open, outermost first
RECURSIVE OpenTags(_)
OpenTags(toks) ==
    IF toks = <<>> THEN <<>>
    ELSE LET before == OpenTags(SubSeq(toks, 1, Len(toks) - 1))
             tk == toks[Len(toks)]
         IN  CASE tk.k = "start" -> Append(before, tk.tag)
               [] tk.k = "end" -> SubSeq(before, 1, Len(before) - 1)
               [] OTHER -> before

Containers(toks) ==
    Cardinality({i \in 1..Len(toks) :
                    toks[i].k = "start" /\ toks[i].tag \in ContainerTags})

RootClosed(toks) == Containers(toks) > 0 /\ OpenTags(toks) = <<>>

StatusCodes == {200, 204, 304, 399, 400, 404, 499, 500, 503, 599, 600}

FeedPage == <<StartTag("channel", NoAttrib), EndTag("channel")>>

ErrorPage == <<StartTag("html", NoAttrib), CharData(<<"n", "o">>), EndTag("html")>>

Bodies == {FeedPage, ErrorPage}

-----------------------------------------------------------------------------
(* State machine *)

Init ==
    /\ text \in {<<>>, <<XmlDecl>>}
    /\ tree = Unset
    /\ elem = Unset
    /\ treeMap = Unset
    /\ elemMap = Unset
    /\ response = None
    /\ pc = "idle"
    /\ fetched = Unset
    /\ gets = 0
    /\ calls = 0

fetchVars == <<response, pc, fetched, gets, calls>>

loadVars == <<tree, elem, treeMap, elemMap>>

NothingLoaded == tree = Unset

\* the feed's author opens a container element and writes its leaf children
WriteStart(tag, leaves) ==
    /\ NothingLoaded
    /\ Containers(text) < MaxElems
    /\ ~RootClosed(text)
    /\ text' = text \o <<StartTag(tag, NoAttrib)>> \o leaves
    /\ UNCHANGED <<loadVars, fetchVars>>

\* the feed's author closes the innermost open element
WriteEnd ==
    /\ NothingLoaded
    /\ OpenTags(text) # <<>>
    /\ text' = Append(text, EndTag(OpenTags(text)[Len(OpenTags(text))]))
    /\ UNCHANGED <<loadVars, fetchVars>>

\* the caller loads the feed from its file
LoadFile ==
    /\ tree = Unset
    /\ tree' = load_podcast_file_into_etree(text)
    /\ UNCHANGED <<text, elem, treeMap, elemMap, fetchVars>>

\* the caller is one thread: it loads the text as a string once it is through
\* with the file
LoadStr ==
    /\ elem = Unset
    /\ tree # Unset
    /\ tree.t = "ElementTree" => treeMap # Unset
    /\ elem' = load_podcast_str_into_etree(text)
    /\ UNCHANGED <<text, tree, treeMap, elemMap, fetchVars>>

\* the caller extracts from the document the file loader gave
ExtractTree ==
    /\ tree.t = "ElementTree"
    /\ treeMap = Unset
    /\ treeMap' = parse_enclosure_map_from_etree(tree)
    /\ UNCHANGED <<text, tree, elem, elemMap, fetchVars>>

\* the caller extracts from the element the string loader gave
ExtractElem ==
    /\ elem.t = "Element"
    /\ elemMap = Unset
    /\ elemMap' = parse_enclosure_map_from_etree(elem)
    /\ UNCHANGED <<text, tree, elem, treeMap, fetchVars>>

Next ==
    \/ \E tag \in ContainerTags : \E leaves \in LeavesOf(tag, text) : WriteStart(tag, leaves)
    \/ WriteEnd
    \/ LoadFile
    \/ LoadStr
    \/ ExtractTree
    \/ ExtractElem

Spec == Init /\ [][Next]_vars

\* retreive_podcast_xml(url) is entered
Call ==
    /\ pc = "idle"
    /\ calls < MaxCalls
    /\ pc' = "get"
    /\ gets' = 0
    /\ response' = None
    /\ fetched' = Unset
    /\ UNCHANGED <<text, loadVars, calls>>

\* response = requests.get(url): the server answers with a status and a body
GetResponse(status, body) ==
    /\ pc = "get"
    /\ gets' = gets + 1
    /\ response' = [status_code |-> status, text |-> body]
    /\ pc' = "raise_for_status"
    /\ UNCHANGED <<text, loadVars, fetched, calls>>

\* requests.get(url) fails: no connection, no name, a timeout
GetFails ==
    /\ pc = "get"
    /\ gets' = gets + 1
    /\ fetched' = Raise("ConnectionError")
    /\ pc' = "idle"
    /\ calls' = calls + 1
    /\ UNCHANGED <<text, loadVars, response>>

\* response.raise_for_status()
RaiseForStatus ==
    /\ pc = "raise_for_status"
    /\ IF raise_for_status(response) = None
       THEN /\ pc' = "return"
            /\ UNCHANGED <<fetched, calls>>
       ELSE /\ fetched' = raise_for_status(response)
            /\ pc' = "idle"
            /\ calls' = calls + 1
    /\ UNCHANGED <<text, loadVars, response, gets>>

\* return response.text
ReturnText ==
    /\ pc = "return"
    /\ fetched' = PyStr(response.text)
    /\ pc' = "idle"
    /\ calls' = calls + 1
    /\ UNCHANGED <<text, loadVars, response, gets>>

FetchNext ==
    \/ Call
    \/ \E status \in StatusCodes : \E body \in Bodies : GetResponse(status, body)
    \/ GetFails
    \/ RaiseForStatus
    \/ ReturnText

FetchSpec == Init /\ [][FetchNext]_vars

-----------------------------------------------------------------------------
(* What the claims speak of, read off the parsed document *)

\* a document handle h was extracted and the extraction returned the mapping m
Returned(h, m) == h.t \in {"ElementTree", "Element"} /\ m.t = "dict"

Least(S) == CHOOSE x \in S : \A y \in S : x <= y

Greatest(S) == CHOOSE x \in S : \A y \in S : y <= x

\* every element named item, the root included
ItemElems(nodes) == {j \in 1..Len(nodes) : nodes[j].tag = "item"}

\* the item elements below the root, at any depth
ItemsBelowRoot(nodes) == ItemElems(nodes) \ {1}

GuidKids(nodes, j) ==
    {g \in 1..Len(nodes) : nodes[g].parent = j /\ nodes[g].tag = "guid"}

EncKids(nodes, j) ==
    {e \in 1..Len(nodes) : nodes[e].parent = j /\ nodes[e].tag = "enclosure"}

\* the text of the item's first direct-child guid, None when it has none
FirstGuidText(nodes, j) ==
    IF GuidKids(nodes, j) = {} THEN None ELSE nodes[Least(GuidKids(nodes, j))].text

\* the attributes of the item's first direct-child enclosure
FirstEnc(nodes, j) == nodes[Least(EncKids(nodes, j))].attrib

\* items below the root with a non-empty first guid and an enclosure
Qualifying(nodes) ==
    {j \in ItemsBelowRoot(nodes) :
        /\ FirstGuidText(nodes, j).t = "str"
        /\ FirstGuidText(nodes, j).v # <<>>
        /\ EncKids(nodes, j) # {}}

Carrying(nodes, g) == {j \in Qualifying(nodes) : FirstGuidText(nodes, j).v = g}

\* the last item in document order that carries the guid g
LastFor(nodes, g) == Greatest(Carrying(nodes, g))

IsDecimal(s) == s # <<>> /\ \A i \in 1..Len(s) : s[i] \in Digits

RECURSIVE Decimal(_)
Decimal(s) ==
    IF s = <<>> THEN 0
    ELSE 10 * Decimal(SubSeq(s, 1, Len(s) - 1)) + DigitVal(s[Len(s)])

LengthMissingOrEmpty(attrib) ==
    "length" \notin DOMAIN attrib \/ attrib["length"] = PyStr(<<>>)

\* the length the spec gives an enclosure whose attribute is missing, empty or a
\* decimal numeral
ExpectedLength(attrib) ==
    IF LengthMissingOrEmpty(attrib) THEN None
    ELSE PyInt(Decimal(attrib["length"].v))

IsFailure(status) == 400 <= status /\ status < 600

-----------------------------------------------------------------------------
(* C1 *)

KeysAreFirstGuids(h, m) ==
    Returned(h, m) =>
        DOMAIN m.d = {FirstGuidText(h.nodes, j).v : j \in Qualifying(h.nodes)}

\* C1 (amended): the keys of the returned mapping are exactly the texts of the
\* first direct-child guid of those item elements below the root whose first
\* direct-child guid has non-empty text and that have a direct-child enclosure.
C1_KeysExact == KeysAreFirstGuids(tree, treeMap) /\ KeysAreFirstGuids(elem, elemMap)

KeysAreAnyGuids(h, m) ==
    Returned(h, m) =>
        DOMAIN m.d =
            UNION { {h.nodes[g].text.v :
                        g \in {x \in GuidKids(h.nodes, j) : Truthy(h.nodes[x].text)}} :
                    j \in {i \in ItemElems(h.nodes) : EncKids(h.nodes, i) # {}} }

\* C1 as stated: the keys are exactly the GUID texts of the item elements (any
\* item of the document) that have a direct-child guid with non-empty text and a
\* direct-child enclosure.
C1_AsStated == KeysAreAnyGuids(tree, treeMap) /\ KeysAreAnyGuids(elem, elemMap)

\* C1's case: a mapping with a key was returned for a document that also holds,
\* below the root, an item without guid or without enclosure
C1_Witness ==
    /\ Returned(tree, treeMap)
    /\ DOMAIN treeMap.d # {}
    /\ \E j \in ItemsBelowRoot(tree.nodes) :
            GuidKids(tree.nodes, j) = {} \/ EncKids(tree.nodes, j) = {}

-----------------------------------------------------------------------------
(* C2 *)

Parseable(attrib) ==
    LengthMissingOrEmpty(attrib) \/ ParseInt(attrib["length"].v).t = "int"

ScopedToItem(h, m) ==
    (h.t \in {"ElementTree", "Element"} /\ m # Unset) =>
        /\ m.t = "dict"
        /\ \A j \in Qualifying(h.nodes) :
                Parseable(FirstEnc(h.nodes, j)) =>
                    FirstGuidText(h.nodes, j).v \in DOMAIN m.d

\* C2: an enclosure length that is no integer does not abort the mapping: the
\* extraction raises nothing and every qualifying item whose length is missing,
\* empty or an integer still has its entry.
C2_MalformedLengthScoped == ScopedToItem(tree, treeMap) /\ ScopedToItem(elem, elemMap)

-----------------------------------------------------------------------------
(* C3 *)

ZeroLengthIs(h, m, value) ==
    Returned(h, m) =>
        \A g \in DOMAIN m.d :
            (Get(FirstEnc(h.nodes, LastFor(h.nodes, g)), "length", None) = PyStr(<<"0">>))
                => m.d[g].length = value

\* C3 (amended): an enclosure whose length attribute is "0" yields the integer 0
\* as the extracted length.
C3_ZeroIsZero ==
    ZeroLengthIs(tree, treeMap, PyInt(0)) /\ ZeroLengthIs(elem, elemMap, PyInt(0))

\* C3 as stated: an enclosure whose length attribute is "0" yields an unset
\* (None) length.
C3_AsStated == ZeroLengthIs(tree, treeMap, None) /\ ZeroLengthIs(elem, elemMap, None)

\* C3's case: an entry extracted from an enclosure with length="0"
C3_Witness ==
    /\ Returned(tree, treeMap)
    /\ \E g \in DOMAIN treeMap.d :
            Get(FirstEnc(tree.nodes, LastFor(tree.nodes, g)), "length", None)
                = PyStr(<<"0">>)

-----------------------------------------------------------------------------
(* C4 *)

LastWins(h, m) ==
    Returned(h, m) =>
        \A g \in DOMAIN m.d :
            Cardinality(Carrying(h.nodes, g)) >= 2 =>
                LET a == FirstEnc(h.nodes, LastFor(h.nodes, g))
                IN  /\ m.d[g].url = Get(a, "url", None)
                    /\ m.d[g].length = ExpectedLength(a)
                    /\ m.d[g].media_type = Get(a, "type", None)

\* C4: when several items carry the same GUID, the one entry under that GUID has
\* the url, length and media_type of the last such item in document order.
C4_LastWins == LastWins(tree, treeMap) /\ LastWins(elem, elemMap)

\* C4's case: two items with the same GUID and different enclosures were extracted
C4_Witness ==
    /\ Returned(elem, elemMap)
    /\ \E g \in DOMAIN elemMap.d :
        \E i, j \in Carrying(elem.nodes, g) :
            /\ i < j
            /\ FirstEnc(elem.nodes, i) # FirstEnc(elem.nodes, j)
            /\ Get(FirstEnc(elem.nodes, i), "url", None)
                    # Get(FirstEnc(elem.nodes, j), "url", None)

-----------------------------------------------------------------------------
(* C5 *)

LengthAsAttribute(h, m) ==
    Returned(h, m) =>
        \A g \in DOMAIN m.d :
            LET a == FirstEnc(h.nodes, LastFor(h.nodes, g))
            IN  /\ LengthMissingOrEmpty(a) => m.d[g].length = None
                /\ (~LengthMissingOrEmpty(a) /\ IsDecimal(a["length"].v))
                        => m.d[g].length = PyInt(Decimal(a["length"].v))

\* C5: the extracted length is None when the length attribute is missing or
\* empty, and the integer value of the attribute when it is a decimal numeral.
C5_Length == LengthAsAttribute(tree, treeMap) /\ LengthAsAttribute(elem, elemMap)

\* C5's case: one mapping with an entry from a missing length and an entry from a
\* numeral
C5_Witness ==
    /\ Returned(tree, treeMap)
    /\ \E g \in DOMAIN treeMap.d :
            /\ "length" \notin DOMAIN FirstEnc(tree.nodes, LastFor(tree.nodes, g))
            /\ treeMap.d[g].length = None
    /\ \E g \in DOMAIN treeMap.d :
            /\ "length" \in DOMAIN FirstEnc(tree.nodes, LastFor(tree.nodes, g))
            /\ treeMap.d[g].length.t = "int"

-----------------------------------------------------------------------------
(* C6 *)

\* C6: a retreive_podcast_xml call returns the body only for a response whose
\* status is no 4xx/5xx; for a 4xx/5xx response it ends in HTTPError; and it
\* issues one GET, never a second.
C6_NoBodyOnFailure ==
    /\ gets <= 1
    /\ pc \in {"raise_for_status", "return"} => gets = 1
    /\ pc = "return" => ~IsFailure(response.status_code)
    /\ fetched.t = "str" =>
            /\ response # None
            /\ ~IsFailure(response.status_code)
            /\ fetched.v = response.text
            /\ gets = 1
    /\ (pc = "idle" /\ response # None /\ IsFailure(response.status_code)) =>
            fetched = Raise("HTTPError")
    /\ (pc = "idle" /\ fetched # Unset) => gets = 1

\* C6's case: a call answered with 404 has ended in HTTPError after one GET
C6_Witness ==
    /\ pc = "idle"
    /\ response # None
    /\ response.status_code = 404
    /\ response.text = ErrorPage
    /\ fetched = Raise("HTTPError")
    /\ gets = 1

-----------------------------------------------------------------------------
(* C7 *)

\* C7: the document loaded from the file and the document loaded from the same
\* text as a string give identical extraction results: where the file loader
\* gives a document the string loader gives one too, and the two mappings (or
\* the two failures) are the same.
C7_RoundTrip ==
    /\ (tree.t = "ElementTree" /\ elem # Unset) => elem.t = "Element"
    /\ (elem.t = "Element" /\ tree # Unset) => tree.t = "ElementTree"
    /\ (treeMap # Unset /\ elemMap # Unset) => treeMap = elemMap

-----------------------------------------------------------------------------
(* C8 *)

UrlAbsentKept(h, m) ==
    Returned(h, m) =>
        /\ \A j \in Qualifying(h.nodes) :
                "url" \notin DOMAIN FirstEnc(h.nodes, j) =>
                    /\ FirstGuidText(h.nodes, j).v \in DOMAIN m.d
                    /\ (j = LastFor(h.nodes, FirstGuidText(h.nodes, j).v)
                            => m.d[FirstGuidText(h.nodes, j).v].url = None)
        /\ \A g \in DOMAIN m.d :
                /\ g # <<>>
                /\ \E j \in ItemsBelowRoot(h.nodes) :
                        /\ FirstGuidText(h.nodes, j) = PyStr(g)
                        /\ EncKids(h.nodes, j) # {}
        /\ (\A j \in ItemsBelowRoot(h.nodes) : FirstGuidText(h.nodes, j) = None)
                => m.d = EmptyDict

\* C8: a visited item with a non-empty GUID and an enclosure without url has an
\* entry under its GUID, with url None; an item whose guid element has empty text
\* adds no entry, like an item without guid element.
C8_UrlAbsentKept == UrlAbsentKept(tree, treeMap) /\ UrlAbsentKept(elem, elemMap)

\* C8's case: an entry with url None from an enclosure without url, next to an
\* item with an enclosure and a guid element of empty text
C8_Witness ==
    /\ Returned(tree, treeMap)
    /\ \E g \in DOMAIN treeMap.d :
            /\ "url" \notin DOMAIN FirstEnc(tree.nodes, LastFor(tree.nodes, g))
            /\ treeMap.d[g].url = None
    /\ \E j \in ItemsBelowRoot(tree.nodes) :
            /\ GuidKids(tree.nodes, j) # {}
            /\ \A g \in GuidKids(tree.nodes, j) : tree.nodes[g].text = None
            /\ EncKids(tree.nodes, j) # {}

-----------------------------------------------------------------------------
(* C9 *)

PlaceholdersUnset(h, m) ==
    Returned(h, m) =>
        \A g \in DOMAIN m.d :
            /\ m.d[g].hash_ipfs = None
            /\ m.d[g].file_name = None
            /\ m.d[g].local_path = None
            /\ m.d[g].guid = PyStr(g)

\* C9: every MediaResource of a returned mapping has hash_ipfs, file_name and
\* local_path None, and its guid field is the key it is stored under.
C9_Placeholders ==
    PlaceholdersUnset(tree, treeMap) /\ PlaceholdersUnset(elem, elemMap)

\* C9's case: a mapping with two entries was returned
C9_Witness ==
    /\ Returned(elem, elemMap)
    /\ Cardinality(DOMAIN elemMap.d) = 2
    /\ \E g \in DOMAIN elemMap.d : elemMap.d[g].url # None

-----------------------------------------------------------------------------
(* C10 *)

DirectChildrenOnly(h, m, items) ==
    Returned(h, m) =>
        /\ \A j \in items :
                (/\ \E g \in GuidKids(h.nodes, j) :
                        /\ g = Least(GuidKids(h.nodes, j))
                        /\ Truthy(h.nodes[g].text)
                 /\ EncKids(h.nodes, j) # {})
                    => h.nodes[Least(GuidKids(h.nodes, j))].text.v \in DOMAIN m.d
        /\ \A g \in DOMAIN m.d :
                \E j \in items :
                    /\ \E x \in GuidKids(h.nodes, j) : h.nodes[x].text = PyStr(g)
                    /\ \E e \in EncKids(h.nodes, j) :
                            /\ m.d[g].url = Get(h.nodes[e].attrib, "url", None)
                            /\ m.d[g].media_type = Get(h.nodes[e].attrib, "type", None)
                    /\ \A i \in items :
                            (i > j /\ EncKids(h.nodes, i) # {})
                                => FirstGuidText(h.nodes, i) # PyStr(g)

\* C10 (amended): extraction visits every item element below the root, at any
\* depth, in document order, and reads guid and enclosure among the item's direct
\* children only: each entry comes from the direct children of the last such
\* item carrying its key, and an item whose guid or enclosure sits deeper adds
\* nothing.
C10_Descendants ==
    /\ DirectChildrenOnly(tree, treeMap, ItemsBelowRoot(tree.nodes))
    /\ DirectChildrenOnly(elem, elemMap, ItemsBelowRoot(elem.nodes))

\* C10 as stated: the same, of every item element anywhere in the document.
C10_AsStated ==
    /\ DirectChildrenOnly(tree, treeMap, ItemElems(tree.nodes))
    /\ DirectChildrenOnly(elem, elemMap, ItemElems(elem.nodes))

\* C10's case: an item nested in an item has its entry, and the enclosing item,
\* whose only guid sits in the nested item, has none
C10_Witness ==
    /\ Returned(tree, treeMap)
    /\ \E j \in ItemsBelowRoot(tree.nodes) :
            /\ tree.nodes[j].parent \in ItemsBelowRoot(tree.nodes)
            /\ j \in Qualifying(tree.nodes)
            /\ GuidKids(tree.nodes, tree.nodes[j].parent) = {}
            /\ EncKids(tree.nodes, tree.nodes[j].parent) # {}
            /\ DOMAIN treeMap.d = {FirstGuidText(tree.nodes, j).v}
            /\ treeMap.d[FirstGuidText(tree.nodes, j).v].url
                    = Get(FirstEnc(tree.nodes, j), "url", None)
            /\ treeMap.d[FirstGuidText(tree.nodes, j).v].url
                    # Get(FirstEnc(tree.nodes, tree.nodes[j].parent), "url", None)

====
